---------------------------- MODULE Spec2Model ----------------------------
(***************************************************************************)
(* A model of src/python/mix_pat.py (wgbs_tools): the Mixer constructor     *)
(* (rate validation, coverage reading, rate adjustment, output prefix),     *)
(* Mixer.single_mix, and mult_mix's fan-out of the replicates over a        *)
(* multiprocessing.Pool with starmap.                                       *)
(*                                                                         *)
(* Numbers.  Rates are integers in units of 1e-8 (One is the rate 1.0), so  *)
(* the tolerance of validate_rates is Tol = 1 unit.  Coverages are integers *)
(* in thousandths of a read per site.  An adjusted rate is the exact        *)
(* fraction rate * dest_cov / cov, kept as a reduced pair <<num, den>>.     *)
(* Arithmetic is exact: the rounding of IEEE doubles is not modelled.       *)
(*                                                                         *)
(* Strings.  A file name or an output prefix is the sequence of the pieces  *)
(* its text has between underscores ("a_0.5_b" is <<"a", "0.5", "b">>), so  *)
(* that '_'.join is concatenation of such sequences, exactly.               *)
(***************************************************************************)
EXTENDS Integers, Sequences, FiniteSets, TLC

\* -------------------------------------------------------------- bounds
\* most input files of one request (at least 2, validate_file_list)
MaxPats == 3
\* coverages found in the beta files: 4, 8, .. 4 * MaxCov thousandths
MaxCov == 2
\* the first requested rate is off the grid by 0 .. MaxEps units of 1e-8
MaxEps == 2
\* most replicates (--reps) of a pool run with one worker, and most workers
\* (--threads)
MaxReps == 5
MaxThreads == 2

\* ------------------------------------------------------ program constants
\* 1.0 in units of the tolerance 1e-8 of validate_rates
One == 100000000
\* the tolerance 1e-8 of validate_rates, in those units
Tol == 1
\* Pool._map_async: chunksize = ceil(len(iterable) / (len(pool) * 4))
ChunkFactor == 4

Half == One \div 2

\* Python's None, for a value that is otherwise a 1-tuple <<v>>
None == <<>>
Some(v) == <<v>>
\* args.bed_file when no -L is given
NoFile == "None"
\* args.region when no region is given
WholeGenome == "None"

Abs(x) == IF x < 0 THEN 0 - x ELSE x

RECURSIVE Sum(_)
Sum(s) == IF s = <<>> THEN 0 ELSE Head(s) + Sum(Tail(s))

SeqMin(s) == CHOOSE x \in {s[i] : i \in DOMAIN s} : \A i \in DOMAIN s : x <= s[i]
SeqMax(s) == CHOOSE x \in {s[i] : i \in DOMAIN s} : \A i \in DOMAIN s : x >= s[i]

RECURSIVE Gcd(_, _)
Gcd(a, b) == IF b = 0 THEN a ELSE Gcd(b, a % b)

\* the exact quotient n / d (d > 0) as a reduced fraction
Frac(n, d) == LET g == Gcd(Abs(n), d) IN <<n \div g, d \div g>>

RECURSIVE Concat(_)
Concat(ss) == IF ss = <<>> THEN <<>> ELSE Head(ss) \o Concat(Tail(ss))

\* ------------------------------------------------------ pure functions
\* variant: the index of the last occurrence of the maximum
ArgMaxLast(s) == CHOOSE i \in DOMAIN s :
    /\ s[i] = SeqMax(s)
    /\ \A j \in DOMAIN s : j > i => s[j] < s[i]
\* np.argmax: the index of the first occurrence of the maximum
ArgMax(s) == CHOOSE i \in DOMAIN s :
    /\ s[i] = SeqMax(s)
    /\ \A j \in DOMAIN s : j < i => s[j] < s[i]

\* validate_rates, line 92-93: the omitted last rate is 1.0 - sum(rates)
CompleteRates(rates, K) ==
    IF Len(rates) = K - 1 THEN Append(rates, One - Sum(rates)) ELSE rates

\* variant: the range as the error message words it, [0, 1)
RangeErrorHalfOpen(r) == SeqMin(r) < 0 \/ SeqMax(r) >= One
\* validate_rates, line 101
RangeError(r) == SeqMin(r) < 0 \/ SeqMax(r) > One

\* variant: validate_rates without the range check of line 101
RatesErrorNoRange(r, K) ==
    IF Len(r) # K THEN "len(rates) must be in {len(files), len(files) - 1}"
    ELSE IF Abs(Sum(r) - One) > Tol THEN "Sum(rates) != 1"
    ELSE "ok"
\* validate_rates, lines 95-102: which IllegalArgumentError is raised, if any
RatesError(r, K) ==
    IF Len(r) # K THEN "len(rates) must be in {len(files), len(files) - 1}"
    ELSE IF Abs(Sum(r) - One) > Tol THEN "Sum(rates) != 1"
    ELSE IF RangeError(r) THEN "rates must be in range [0, 1)"
    ELSE "ok"

\* `if not self.dest_cov`: None and 0.0 are both falsy
Falsy(c) == c = None \/ c[1] = 0

\* adjust_rates, lines 127-128
DestCov(cov, rates, cs) == IF Falsy(cov) THEN Some(cs[ArgMax(rates)]) ELSE cov

\* variant: the adjusted rate cut off at 1
AdjRateClamped(rate, dcov, c) ==
    IF rate * dcov > c * One THEN <<1, 1>> ELSE Frac(rate * dcov, c * One)
\* adjust_rates, line 132: rate * dest_cov / cov, as a fraction of 1.0
AdjRate(rate, dcov, c) == Frac(rate * dcov, c * One)

\* str() of a float: one text per value
NumStr(x) == ToString(x)
FracStr(q) == ToString(q[1]) \o "/" \o ToString(q[2])

\* '{:.2f}'.format(c) of a coverage c >= 0 in thousandths
Fmt2(c) ==
    LET h == (c + 5) \div 10
        cents == h % 100
    IN  ToString(h \div 100) \o "." \o
        (IF cents < 10 THEN "0" ELSE "") \o ToString(cents)

\* ---------------------------------------------- collaborators (not in src/)
\* GenomicRegion(args): the region parser.  sites is None for the whole genome.
GenomicRegion(region) ==
    IF region = WholeGenome
    THEN [sites |-> None, region_str |-> ""]
    ELSE [sites |-> Some(<<3, 7>>), region_str |-> region]
\* validate_dir(d): the directories there are afterwards (a missing one is made)
ValidateDir(dirs, d) == dirs \cup {d}
\* GenomicRegion.is_whole
IsWhole(g) == g.sites = None

\* splitextgz(op.basename(f))[0]: the file's name without directory and .pat.gz
Basename(f) == f.name

\* ------------------------------------------------------ Mixer, pure parts
\* variant: the composed name without the rates
PrefixNameNoRates(pats, rates, dcov, g) ==
    Concat([i \in DOMAIN pats |-> Basename(pats[i])])
        \o <<"cov", Fmt2(dcov[1])>>
        \o (IF g.sites = None THEN <<>> ELSE <<g.region_str>>)
\* generate_prefix, lines 45-48: the composed name, in its pieces
PrefixName(pats, rates, dcov, g) ==
    Concat([i \in DOMAIN pats |-> Basename(pats[i]) \o <<NumStr(rates[i])>>])
        \o <<"cov", Fmt2(dcov[1])>>
        \o (IF g.sites = None THEN <<>> ELSE <<g.region_str>>)

\* generate_prefix, lines 37-50: the prefix as [dir, name]; op.join(outdir, res)
GeneratePrefixOf(outdir, pfx, pats, rates, dcov, g) ==
    IF pfx # None THEN pfx[1]
    ELSE [dir |-> outdir, name |-> PrefixName(pats, rates, dcov, g)]

\* generate_prefix, lines 39-43: the directory validate_dir is called on, if any
PrefixDir(outdir, pfx) ==
    IF pfx # None THEN (IF pfx[1].dir # "" THEN Some(pfx[1].dir) ELSE None)
    ELSE Some(outdir)

\* variant: the output path without the replicate's number
MixPathNoRep(pfx, rep) ==
    [dir |-> pfx.dir, name |-> pfx.name \o <<".pat.gz">>]
\* single_mix, line 60: prefix + '_{rep + 1}.pat.gz', for the 0-based rep
MixPath(pfx, rep) ==
    [dir |-> pfx.dir, name |-> pfx.name \o <<ToString(rep + 1) \o ".pat.gz">>]

\* variant: `if` for the `elif` of line 75
ScopeFlagsBoth(bed_file, g) ==
    (IF bed_file # NoFile THEN <<"-L", bed_file>> ELSE <<>>)
    \o (IF ~IsWhole(g)
        THEN <<"-s", ToString(g.sites[1][1]) \o "-" \o ToString(g.sites[1][2])>>
        ELSE <<>>)
\* single_mix, lines 73-76: the scope restriction of one source's flags
ScopeFlags(bed_file, g) ==
    IF bed_file # NoFile THEN <<"-L", bed_file>>
    ELSE IF ~IsWhole(g)
         THEN <<"-s", ToString(g.sites[1][1]) \o "-" \o ToString(g.sites[1][2])>>
         ELSE <<>>

\* single_mix, lines 66-77: the flag string of source i, in its words
ViewFlags(a, g, adj, i) ==
    (IF a.strict THEN <<"--strict">> ELSE <<>>)
    \o (IF a.strip THEN <<"--strip">> ELSE <<>>)
    \o (IF a.min_len # 0 THEN <<"--min_len", ToString(a.min_len)>> ELSE <<>>)
    \o ScopeFlags(a.bed_file, g)
    \o <<"--sub_sample", FracStr(adj[i])>>

\* Pool._map_async, lines 480-487: the chunk size and the task batches
ChunkSize(n, nworkers) ==
    LET q == n \div (nworkers * ChunkFactor)
    IN  IF n % (nworkers * ChunkFactor) # 0 THEN q + 1 ELSE q
NrChunks(n, cs) == IF cs = 0 THEN 0 ELSE (n + cs - 1) \div cs
Chunks(n, cs) ==
    [i \in 1..NrChunks(n, cs) |->
        [i |-> i - 1,
         jobs |-> [k \in 1..(IF i * cs <= n THEN cs ELSE n - (i - 1) * cs)
                    |-> (i - 1) * cs + k - 1]]]

\* ------------------------------------------------------------- state
VARIABLES
    args,        \* the parsed command line (parse_args), never changed
    envCov,      \* file system: the coverage each source's beta file holds
    envBeta,     \* file system: the sources whose beta file exists
    envDirs,     \* file system: the directories that exist
    pre,         \* file system: the replicates (1-based) whose output exists
    pc,          \* where mult_mix is
    err,         \* the IllegalArgumentError raised by the constructor, or "ok"
    io,          \* the kinds of file access made so far
    gr, bed, labels, dest_cov, dest_rates, covs, adj_rates, prefix,  \* Mixer
    warned,      \* the sources adjust_rates warned about
    taskq,       \* Pool: the chunks no worker has taken yet
    worker,      \* Pool: each worker's chunk and its place in it
    outq,        \* Pool: the chunk results the result handler has not seen yet
    number_left, success, value,   \* MapResult
    merges,      \* the MergePats.fast_merge_pats calls made: [rep, path, view_flags]
    nmerges,     \* how many there were
    skipped,     \* the replicates (0-based) single_mix returned early from
    returned,    \* the replicates whose single_mix returned after the merge
    failed,      \* the replicates whose merge raised
    fsDel,       \* the output paths delete_or_skip removed
    fsNew,       \* the output paths a merge wrote
    raised,      \* the exception starmap raised in mult_mix, or None
    pair         \* two requests and the prefix generate_prefix gives each

mixer == <<gr, bed, labels, dest_cov, dest_rates, covs, adj_rates, prefix, warned>>
env == <<envCov, envBeta, envDirs, pre>>
pool == <<taskq, worker, outq, number_left, success, value>>
jobs == <<merges, nmerges, skipped, returned, failed, fsDel, fsNew>>
vars == <<args, env, pc, err, io, mixer, pool, jobs, raised, pair>>

NrPats == Len(args.pat_files)
Reps == 0..(args.reps - 1)

\* ------------------------------------------------------------- inputs
PatFile(i) ==
    [dir |-> "data", name |-> <<"S" \o ToString(i) \o "-r1">>,
     label |-> "s" \o ToString(i)]
Pats(K) == [i \in 1..K |-> PatFile(i)]

CovVals == {4 * c : c \in 1..MaxCov}

DefaultArgs(K) ==
    [pat_files |-> Pats(K), rates |-> <<Half>>, cov |-> None, bed_file |-> NoFile,
     region |-> WholeGenome, labels |-> None, force |-> FALSE, reps |-> 1,
     threads |-> 1, prefix |-> None, out_dir |-> ".",
     strict |-> FALSE, strip |-> FALSE, min_len |-> 0]

\* rates on the grid of halves from -0.5 to 1.5, the first one off it by up to
\* MaxEps units; every length from 1 to K + 1
RateVals == {0 - Half, 0, Half, One, One + Half}
RatesGrid(K) ==
    {[r EXCEPT ![1] = @ + e] :
        r \in UNION {[1..n -> RateVals] : n \in 1..(K + 1)}, e \in 0..MaxEps}

\* the rates on the grid of halves that validate_rates accepts
Halves == {0, Half, One}
GoodRates(K) ==
    {r \in [1..K -> Halves] : Sum(r) = One}
        \cup {r \in [1..(K - 1) -> Halves] : Sum(r) <= One}

\* Mixer.prefix before generate_prefix has set it
NoPrefix == [dir |-> "", name |-> <<>>]
\* a pool worker with no chunk
Idle == [chunk |-> 0 - 1, todo |-> <<>>, cur |-> 0 - 1, ok |-> TRUE, exc |-> 0 - 1]

Start(a, c, b, d, p) ==
    /\ args = a /\ envCov = c /\ envBeta = b /\ envDirs = d /\ pre = p
    /\ pc = "init" /\ err = "ok" /\ io = {}
    /\ gr = GenomicRegion(WholeGenome) /\ bed = None /\ labels = <<>>
    /\ dest_cov = None /\ dest_rates = <<>> /\ covs = <<>> /\ adj_rates = <<>>
    /\ prefix = NoPrefix
    /\ warned = {}
    /\ taskq = <<>> /\ worker = <<>> /\ outq = <<>>
    /\ number_left = 0 /\ success = TRUE /\ value = None
    /\ merges = {} /\ nmerges = 0 /\ skipped = {} /\ returned = {} /\ failed = {}
    /\ fsDel = {} /\ fsNew = {} /\ raised = None

\* the state of a run of mult_mix; the pair of requests is not in use
Run(a, c, b, d, p) == Start(a, c, b, d, p) /\ pair = None

\* Requests for the validation and the flags: every rates vector of the grid,
\* with or without a bed file, a region and the read filters; the output
\* directory and one beta file are missing.
Init ==
    \E K \in 2..MaxPats : \E r \in RatesGrid(K), b \in {NoFile, "r.bed"},
       g \in {WholeGenome, "chr1:10-20"}, f \in BOOLEAN :
        Run([DefaultArgs(K) EXCEPT !.rates = r, !.bed_file = b, !.region = g,
                                     !.strict = f, !.strip = f,
                                     !.min_len = IF f THEN 5 ELSE 0,
                                     !.out_dir = "out", !.reps = 2],
              [i \in 1..K |-> 4 * ((i % MaxCov) + 1)], 2..K, {"."}, {})

\* Requests for the adjustment: the accepted rates vectors of the grid of
\* halves, every target coverage (none, 0, a value), every coverage of every
\* source, with and without labels of the wrong length.
InitAdjust ==
    \E K \in 2..MaxPats : \E r \in GoodRates(K), c \in {None, Some(0)} \cup {Some(v) : v \in CovVals},
       e \in [1..K -> CovVals], l \in {None, <<"x">>} :
        Run([DefaultArgs(K) EXCEPT !.rates = r, !.cov = c, !.labels = l, !.reps = 2],
              e, 1..K, {"."}, {})

\* Requests for the pool: with T workers up to MaxReps + 1 - T replicates (one
\* worker gets chunks of two with the fifth), the outputs of the first j
\* replicates already there, with and without --force, a composed or a given
\* prefix.
InitPool ==
    \E T \in 1..MaxThreads, f \in BOOLEAN,
       p \in {None, Some([dir |-> "out", name |-> <<"mix">>])} :
      \E R \in 0..(MaxReps + 1 - T) : \E j \in 0..R :
        Run([DefaultArgs(2) EXCEPT !.force = f, !.reps = R, !.threads = T,
                                     !.prefix = p],
              <<8, 4>>, 1..2, {"."}, 1..j)

\* ------------------------------------------------- Mixer.__init__, by step
\* lines 21-28: the region, the destination coverage, the bed blocks
InitFields ==
    /\ pc = "init"
    /\ gr' = GenomicRegion(args.region)
    /\ dest_cov' = args.cov
    /\ IF args.bed_file # NoFile
       THEN bed' = Some(args.bed_file) /\ io' = io \cup {"load_blocks_file"}
       ELSE bed' = None /\ io' = io
    /\ pc' = "labels"
    /\ UNCHANGED <<pair, args, env, err, labels, dest_rates, covs, adj_rates, prefix,
                   warned, pool, jobs, raised>>

\* line 29, validate_labels
ValidateLabels ==
    /\ pc = "labels"
    /\ LET l == IF args.labels = None
                THEN [i \in 1..NrPats |-> args.pat_files[i].label]
                ELSE args.labels
       IN  IF Len(l) # NrPats
           THEN /\ err' = "len(labels) != len(files)"
                /\ pc' = "error"
                /\ labels' = labels
           ELSE /\ labels' = l
                /\ pc' = "rates"
                /\ err' = err
    /\ UNCHANGED <<pair, args, env, io, gr, bed, dest_cov, dest_rates, covs, adj_rates,
                   prefix, warned, pool, jobs, raised>>

\* line 31, validate_rates.  (The append of line 93 also lengthens args.rates,
\* the same list, which nothing reads again.)
ValidateRates ==
    /\ pc = "rates"
    /\ LET r == CompleteRates(args.rates, NrPats)
           e == RatesError(r, NrPats)
       IN  IF e # "ok"
           THEN /\ err' = e
                /\ pc' = "error"
                /\ dest_rates' = dest_rates
           ELSE /\ dest_rates' = r
                /\ pc' = "covs"
                /\ err' = err
    /\ UNCHANGED <<pair, args, env, io, gr, bed, labels, dest_cov, covs, adj_rates,
                   prefix, warned, pool, jobs, raised>>

\* line 32, read_covs: a missing beta file is generated, then every coverage
\* is read (over the bed blocks, the --bed_cov blocks or the sites)
ReadCovs ==
    /\ pc = "covs"
    /\ io' = io \cup {"beta_cov"}
              \cup (IF envBeta # 1..NrPats THEN {"pat2beta"} ELSE {})
    /\ envBeta' = 1..NrPats
    /\ covs' = envCov
    /\ pc' = "adjust"
    /\ UNCHANGED <<pair, args, envCov, envDirs, pre, err, gr, bed, labels, dest_cov,
                   dest_rates, adj_rates, prefix, warned, pool, jobs, raised>>

\* line 33, adjust_rates
AdjustRates ==
    /\ pc = "adjust"
    /\ LET d == DestCov(dest_cov, dest_rates, covs)
           adj == [i \in 1..NrPats |-> AdjRate(dest_rates[i], d[1], covs[i])]
       IN  /\ dest_cov' = d
           /\ adj_rates' = adj
           /\ warned' = {i \in 1..NrPats : adj[i][1] > adj[i][2]}
    /\ pc' = "prefix"
    /\ UNCHANGED <<pair, args, env, err, io, gr, bed, labels, dest_rates, covs, prefix,
                   pool, jobs, raised>>

\* line 35, generate_prefix: validate_dir makes the directory if it is missing
GeneratePrefix ==
    /\ pc = "prefix"
    /\ LET d == PrefixDir(args.out_dir, args.prefix)
       IN  IF d # None /\ d[1] \notin envDirs
           THEN envDirs' = ValidateDir(envDirs, d[1]) /\ io' = io \cup {"mkdir"}
           ELSE envDirs' = envDirs /\ io' = io
    /\ prefix' = GeneratePrefixOf(args.out_dir, args.prefix, args.pat_files,
                                  dest_rates, dest_cov, gr)
    /\ pc' = "print"
    /\ UNCHANGED <<pair, args, envCov, envBeta, pre, err, gr, bed, labels, dest_cov,
                   dest_rates, covs, adj_rates, warned, pool, jobs, raised>>

\* ----------------------------------------------------- mult_mix, the pool
\* lines 147-150: print_rates, Pool(args.threads), starmap's _map_async
Dispatch ==
    /\ pc = "print"
    /\ LET cs == ChunkSize(args.reps, args.threads)
       IN  /\ taskq' = Chunks(args.reps, cs)
           /\ number_left' = NrChunks(args.reps, cs)
    /\ worker' = [w \in 1..args.threads |-> Idle]
    /\ outq' = <<>>
    /\ success' = TRUE
    /\ value' = None
    /\ pc' = "pool"
    /\ UNCHANGED <<pair, args, env, err, io, mixer, jobs, raised>>

\* pool.worker: an idle worker takes the next chunk off the task queue
WorkerGet(w) ==
    /\ pc = "pool"
    /\ worker[w].chunk = 0 - 1
    /\ taskq # <<>>
    /\ worker' = [worker EXCEPT ![w] =
                    [Idle EXCEPT !.chunk = Head(taskq).i, !.todo = Head(taskq).jobs]]
    /\ taskq' = Tail(taskq)
    /\ UNCHANGED <<pair, args, env, pc, err, io, mixer, outq, number_left, success,
                   value, jobs, raised>>

\* delete_or_skip(path, force): FALSE when the file exists and force is not
\* set; otherwise the file, if any, is removed
Exists(path) ==
    \/ path \in fsNew
    \/ path \in {MixPath(prefix, r - 1) : r \in pre} \ fsDel
DeleteOrSkip(path, force) == ~(Exists(path) /\ ~force)

\* variant: line 61 without its `not`
ReturnsEarlyInverted(path, force) == DeleteOrSkip(path, force)
\* single_mix, lines 61-62: `if not delete_or_skip(mix_i, force): return`
ReturnsEarly(path, force) == ~DeleteOrSkip(path, force)

\* Mixer.single_mix(rep), lines 60-80: up to the call of fast_merge_pats
MixBegin(w) ==
    /\ pc = "pool"
    /\ worker[w].chunk # 0 - 1 /\ worker[w].cur = 0 - 1 /\ worker[w].todo # <<>>
    /\ LET rep == Head(worker[w].todo)
           mix_i == MixPath(prefix, rep)
       IN  IF ReturnsEarly(mix_i, args.force)
           THEN /\ skipped' = skipped \cup {rep}
                /\ worker' = [worker EXCEPT ![w].todo = Tail(@)]
                /\ UNCHANGED <<merges, nmerges, fsDel>>
           ELSE /\ fsDel' = IF Exists(mix_i) THEN fsDel \cup {mix_i} ELSE fsDel
                /\ merges' = merges \cup
                      {[rep |-> rep, path |-> mix_i, labels |-> labels,
                        view_flags |-> [i \in 1..NrPats |->
                                           ViewFlags(args, gr, adj_rates, i)]]}
                /\ nmerges' = nmerges + 1
                /\ worker' = [worker EXCEPT ![w].cur = rep]
                /\ UNCHANGED skipped
    /\ UNCHANGED <<pair, args, env, pc, err, io, mixer, taskq, outq, number_left,
                   success, value, returned, failed, fsNew, raised>>

\* line 81, fast_merge_pats returns: the output is written, single_mix returns
MergeDone(w) ==
    /\ pc = "pool"
    /\ worker[w].cur # 0 - 1
    /\ fsNew' = fsNew \cup {MixPath(prefix, worker[w].cur)}
    /\ returned' = returned \cup {worker[w].cur}
    /\ worker' = [worker EXCEPT ![w].cur = 0 - 1, ![w].todo = Tail(@)]
    /\ UNCHANGED <<pair, args, env, pc, err, io, mixer, taskq, outq, number_left,
                   success, value, merges, nmerges, skipped, failed, fsDel, raised>>

\* line 81, fast_merge_pats raises: starmapstar's list(starmap(..)) ends there,
\* and the rest of the chunk is never run
MergeFails(w) ==
    /\ pc = "pool"
    /\ worker[w].cur # 0 - 1
    /\ failed' = failed \cup {worker[w].cur}
    /\ worker' = [worker EXCEPT ![w].cur = 0 - 1, ![w].todo = <<>>,
                                ![w].ok = FALSE, ![w].exc = worker[w].cur]
    /\ UNCHANGED <<pair, args, env, pc, err, io, mixer, taskq, outq, number_left,
                   success, value, merges, nmerges, skipped, returned, fsDel,
                   fsNew, raised>>

\* pool.worker: put((job, i, result)) at the end of the chunk
WorkerPut(w) ==
    /\ pc = "pool"
    /\ worker[w].chunk # 0 - 1 /\ worker[w].cur = 0 - 1 /\ worker[w].todo = <<>>
    /\ outq' = Append(outq, [i |-> worker[w].chunk, ok |-> worker[w].ok,
                             exc |-> worker[w].exc])
    /\ worker' = [worker EXCEPT ![w] = Idle]
    /\ UNCHANGED <<pair, args, env, pc, err, io, mixer, taskq, number_left, success,
                   value, jobs, raised>>

\* Pool._handle_results and MapResult._set: only the first exception is kept
HandleResult ==
    /\ pc = "pool"
    /\ outq # <<>>
    /\ number_left' = number_left - 1
    /\ IF ~Head(outq).ok /\ success
       THEN success' = FALSE /\ value' = Some(Head(outq).exc)
       ELSE UNCHANGED <<success, value>>
    /\ outq' = Tail(outq)
    /\ UNCHANGED <<pair, args, env, pc, err, io, mixer, taskq, worker, jobs, raised>>

\* variant: a map result that is ready at the first failed chunk
ReturnFailFast ==
    /\ pc = "pool"
    /\ number_left = 0 \/ ~success
    /\ IF success
       THEN pc' = "done" /\ raised' = raised
       ELSE pc' = "raised" /\ raised' = value
    /\ UNCHANGED <<pair, args, env, err, io, mixer, pool, jobs>>
\* starmap's get() once every chunk is in: lines 151-152 or the exception
Return ==
    /\ pc = "pool"
    /\ number_left = 0
    /\ IF success
       THEN pc' = "done" /\ raised' = raised
       ELSE pc' = "raised" /\ raised' = value
    /\ UNCHANGED <<pair, args, env, err, io, mixer, pool, jobs>>

Next ==
    \/ InitFields \/ ValidateLabels \/ ValidateRates \/ ReadCovs
    \/ AdjustRates \/ GeneratePrefix \/ Dispatch
    \/ \E w \in DOMAIN worker : WorkerGet(w)
    \/ \E w \in DOMAIN worker : MixBegin(w)
    \/ \E w \in DOMAIN worker : MergeDone(w)
    \/ \E w \in DOMAIN worker : MergeFails(w)
    \/ \E w \in DOMAIN worker : WorkerPut(w)
    \/ HandleResult \/ Return

Spec == Init /\ [][Next]_vars
SpecAdjust == InitAdjust /\ [][Next]_vars
SpecPool == InitPool /\ [][Next]_vars

\* ------------------------------------- generate_prefix on two requests
\* File names of one or three pieces, a middle piece being the text of a rate.
PrefixNames ==
    {<<"x">>} \cup {<<"x", NumStr(r), "x">> : r \in {Half, Half + 1}}
\* Two sources, the accepted rates next to one half, a target coverage, a
\* region or none, an output directory.
PrefixRequests ==
    {[out_dir |-> o,
      pats |-> <<[dir |-> "data", name |-> n1, label |-> "x"],
                 [dir |-> "data", name |-> n2, label |-> "x"]>>,
      rates |-> r, dest_cov |-> Some(c), region |-> g] :
        o \in {".", "out"}, n1 \in PrefixNames, n2 \in PrefixNames,
        r \in {q \in [1..2 -> {Half, Half + 1}] : RatesError(q, 2) = "ok"},
        c \in {4, 8}, g \in {WholeGenome, "chr1:10-20"}}

PrefixOfRequest(q) ==
    GeneratePrefixOf(q.out_dir, None, q.pats, q.rates, q.dest_cov,
                     GenomicRegion(q.region))

InitPrefix ==
    /\ Start(DefaultArgs(2), <<8, 4>>, 1..2, {"."}, {})
    /\ \E a \in PrefixRequests, b \in PrefixRequests :
        pair = Some([a |-> a, b |-> b, pa |-> NoPrefix, pb |-> NoPrefix,
                     done |-> FALSE])

\* generate_prefix with no explicit prefix, for each of the two requests
ComposePrefixes ==
    /\ pair # None /\ ~pair[1].done
    /\ pair' = Some([pair[1] EXCEPT !.pa = PrefixOfRequest(pair[1].a),
                                    !.pb = PrefixOfRequest(pair[1].b),
                                    !.done = TRUE])
    /\ UNCHANGED <<args, env, pc, err, io, mixer, pool, jobs, raised>>

NextPrefix == ComposePrefixes

SpecPrefix == InitPrefix /\ [][NextPrefix]_vars

\* ----------------------------------------------------------- the claims
\* the constructor has returned / adjust_rates has returned
Constructed == pc \in {"print", "pool", "done", "raised"}
Adjusted == pc = "prefix" \/ Constructed
\* the replicates single_mix was called for and has left
Ran == skipped \cup returned \cup failed
\* how often word t is in the flag words v
Count(v, t) == Cardinality({p \in DOMAIN v : v[p] = t})
\* requested_rate(i) * target_coverage / original_coverage(i)
RawQuotient(i) == Frac(dest_rates[i] * dest_cov[1], covs[i] * One)
\* <prefix>_<r>.pat.gz
PathOfReplicate(r) ==
    [dir |-> prefix.dir, name |-> prefix.name \o <<ToString(r) \o ".pat.gz">>]
\* the completion of the rates vector the request gives
Completion ==
    IF Len(args.rates) = NrPats - 1
    THEN args.rates \o <<One - Sum(args.rates)>>
    ELSE args.rates

\* C1: once adjust_rates has run, every source's adjusted rate is
\* requested_rate * target_coverage / original_coverage, also when that is
\* above 1: then the source is warned about and nothing fails; and every merge
\* call of every replicate carries that same value as the source's
\* --sub_sample.
C1_AdjustedRateIsRawQuotient ==
    Adjusted =>
        /\ err = "ok"
        /\ \A i \in 1..NrPats : adj_rates[i] = RawQuotient(i)
        /\ warned = {i \in 1..NrPats : dest_rates[i] * dest_cov[1] > covs[i] * One}
        /\ \A m \in merges : \A i \in 1..NrPats :
            LET v == m.view_flags[i]
            IN  /\ Count(v, "--sub_sample") = 1
                /\ v[Len(v) - 1] = "--sub_sample"
                /\ v[Len(v)] = FracStr(RawQuotient(i))

\* C1's case: a finished run of two replicates, both merged, with a source
\* whose adjusted rate is above 1.
C1_Witness ==
    /\ pc = "done" /\ nmerges = 2 /\ Cardinality(merges) = 2
    /\ \E i \in 1..NrPats : adj_rates[i][1] > adj_rates[i][2]

\* C2: with no target coverage given, the target that adjust_rates uses and
\* that the composed output name shows is the original coverage of the first
\* source among those with the greatest requested rate.
C2_UnsetTargetIsCoverageOfFirstMaxRate ==
    (args.cov = None /\ Adjusted) =>
        \E i \in 1..NrPats :
            /\ \A j \in 1..NrPats : dest_rates[j] <= dest_rates[i]
            /\ \A j \in 1..(i - 1) : dest_rates[j] < dest_rates[i]
            /\ dest_cov = Some(covs[i])
            /\ \A k \in 1..NrPats :
                adj_rates[k] = Frac(dest_rates[k] * covs[i], covs[k] * One)
            /\ (Constructed /\ args.prefix = None) =>
                /\ prefix.name[2 * NrPats + 1] = "cov"
                /\ prefix.name[2 * NrPats + 2] = Fmt2(covs[i])

\* C2's case: no target given, the first two sources tie for the greatest rate
\* and differ in coverage.
C2_Witness ==
    /\ args.cov = None /\ pc = "done"
    /\ dest_rates[1] = Half /\ dest_rates[2] = Half
    /\ covs[1] # covs[2]

BadRates ==
    \/ Len(args.rates) \notin {NrPats, NrPats - 1}
    \/ Abs(Sum(Completion) - One) > Tol
    \/ \E i \in DOMAIN args.rates : args.rates[i] > One \/ args.rates[i] < 0

\* C4 as stated: such a rates vector makes the constructor fail with no file
\* access at all before the failure.
C4_FailsBeforeAnyIO ==
    (BadRates /\ pc = "error") => io = {}

\* C4, amended: such a rates vector makes the constructor fail in
\* validate_rates, with one of its three errors, before any coverage is read,
\* any beta file generated, any directory made or any merge called; the bed
\* file, if one is given, has been loaded by then.
C4_FailsBeforeCoverageAndOutput ==
    BadRates =>
        /\ pc \in {"init", "labels", "rates", "error"}
        /\ pc = "error" =>
            err \in {"len(rates) must be in {len(files), len(files) - 1}",
                     "Sum(rates) != 1", "rates must be in range [0, 1)"}
        /\ io \subseteq {"load_blocks_file"}
        /\ (pc # "init" /\ args.bed_file # NoFile) => io = {"load_blocks_file"}
        /\ envDirs = {"."} /\ envBeta = 2..NrPats
        /\ covs = <<>> /\ nmerges = 0 /\ merges = {} /\ fsNew = {} /\ fsDel = {}

\* C4's case: a vector of length K that sums to 1 but has an entry outside
\* [0, 1] was rejected after the bed file was loaded.
C4_Witness ==
    /\ pc = "error" /\ err = "rates must be in range [0, 1)"
    /\ Len(args.rates) = NrPats /\ Sum(args.rates) = One
    /\ io = {"load_blocks_file"}

\* C9: in every merge call each source's flags hold at most one scope
\* restriction: -L with the bed file when one is given, whatever the region;
\* else -s with the site range when the region is not the whole genome; else
\* none.
C9_OneScopeRestriction ==
    \A m \in merges : \A i \in 1..NrPats :
        LET v == m.view_flags[i]
        IN  /\ Count(v, "-L") + Count(v, "-s") <= 1
            /\ args.bed_file # NoFile =>
                /\ \E p \in 1..(Len(v) - 1) : v[p] = "-L" /\ v[p + 1] = args.bed_file
                /\ Count(v, "-s") = 0
            /\ (args.bed_file = NoFile /\ args.region # WholeGenome) =>
                /\ \E p \in 1..(Len(v) - 1) : v[p] = "-s" /\ v[p + 1] = "3-7"
                /\ Count(v, "-L") = 0
            /\ (args.bed_file = NoFile /\ args.region = WholeGenome) =>
                Count(v, "-L") + Count(v, "-s") = 0

\* C9's case: a merge was called for a request with both a bed file and a
\* site range.
C9_Witness ==
    /\ merges # {}
    /\ args.bed_file # NoFile /\ args.region # WholeGenome

\* C10 as stated: a target coverage the caller gives is the one adjust_rates
\* uses and the output name shows.
C10_GivenTargetIsUsed ==
    (args.cov # None /\ Adjusted) =>
        /\ dest_cov = args.cov
        /\ \A k \in 1..NrPats :
            adj_rates[k] = Frac(dest_rates[k] * args.cov[1], covs[k] * One)
        /\ (Constructed /\ args.prefix = None) =>
            prefix.name[2 * NrPats + 2] = Fmt2(args.cov[1])

\* C5 as stated: when a merge has failed, mult_mix ends only after
\* single_mix has run for every replicate, and what it raises names every
\* failed replicate.
C5_AwaitsAllSurfacesAll ==
    (pc \in {"done", "raised"} /\ failed # {}) =>
        /\ Reps \subseteq Ran
        /\ pc = "raised" /\ raised # None
        /\ {raised[1]} = failed

\* C5, amended: mult_mix ends only when every chunk of replicates has been
\* worked off and no merge is running.  Every replicate has then run, except
\* those that follow a failed one in its chunk of ceil(R / 4T) consecutive
\* replicates: these are never started.  mult_mix raises if and only if a
\* merge failed, and what it raises is the exception of one failed replicate.
C5_AwaitsChunksRaisesOneFailure ==
    pc \in {"done", "raised"} =>
        /\ taskq = <<>> /\ outq = <<>> /\ number_left = 0
        /\ \A w \in DOMAIN worker : worker[w] = Idle
        /\ \A rep \in Reps \ Ran :
            \E f \in failed :
                /\ f < rep
                /\ f \div ChunkSize(args.reps, args.threads)
                     = rep \div ChunkSize(args.reps, args.threads)
        /\ \A f \in failed : \A rep \in Reps :
            (/\ f < rep
             /\ f \div ChunkSize(args.reps, args.threads)
                  = rep \div ChunkSize(args.reps, args.threads))
            => rep \notin Ran
        /\ (pc = "raised") <=> (failed # {})
        /\ pc = "raised" => (raised # None /\ raised[1] \in failed)
        /\ pc = "done" => raised = None

\* C5's case: mult_mix raised after two merges failed, and some replicate was
\* never started.
C5_Witness ==
    /\ pc = "raised"
    /\ Cardinality(failed) >= 2
    /\ Reps \ Ran # {}

\* C6: no two merge calls are given the same output path and no replicate is
\* merged twice; and a run that ends without a failed merge, with no output
\* there beforehand or with --force, has made exactly R merge calls, one per
\* replicate r in 1..R, on <prefix>_<r>.pat.gz.
C6_OneMergePerReplicateOnItsOwnPath ==
    /\ nmerges = Cardinality(merges)
    /\ \A m1, m2 \in merges : m1.rep # m2.rep => m1.path # m2.path
    /\ \A v, w \in DOMAIN worker :
        (v # w /\ worker[v].cur # 0 - 1 /\ worker[w].cur # 0 - 1) =>
            \E m1, m2 \in merges :
                /\ m1.rep = worker[v].cur /\ m2.rep = worker[w].cur
                /\ m1.path # m2.path
    /\ (pc = "done" /\ (pre = {} \/ args.force)) =>
        /\ nmerges = args.reps
        /\ \A m \in merges : m.path = PathOfReplicate(m.rep + 1)
        /\ {m.path : m \in merges} = {PathOfReplicate(r) : r \in 1..args.reps}
        /\ Cardinality({m.path : m \in merges}) = args.reps

\* C6's case: two workers have merged four replicates, none there beforehand.
C6_Witness ==
    /\ pc = "done" /\ pre = {} /\ ~args.force
    /\ args.threads = 2 /\ args.reps = 4 /\ nmerges = 4

SameNameInputs(a, b) ==
    /\ [i \in DOMAIN a.pats |-> Basename(a.pats[i])]
         = [i \in DOMAIN b.pats |-> Basename(b.pats[i])]
    /\ a.rates = b.rates
    /\ a.dest_cov = b.dest_cov
    /\ a.region = b.region

\* C8 as stated: with no prefix given, two requests with the same basenames,
\* rates, target coverage and region get the same prefix, and two requests
\* with different rates get different prefixes.
C8_PrefixFromNameInputsOnly ==
    (pair # None /\ pair[1].done) =>
        /\ SameNameInputs(pair[1].a, pair[1].b) => pair[1].pa = pair[1].pb
        /\ pair[1].a.rates # pair[1].b.rates => pair[1].pa # pair[1].pb

\* C8, amended: with no prefix given, two requests with the same output
\* directory, basenames, rates, target coverage and region get the same
\* prefix, and two requests with the same basenames and different rates get
\* different prefixes.
C8_PrefixFromDirAndNameInputs ==
    (pair # None /\ pair[1].done) =>
        /\ (/\ pair[1].a.out_dir = pair[1].b.out_dir
            /\ SameNameInputs(pair[1].a, pair[1].b)) => pair[1].pa = pair[1].pb
        /\ (/\ [i \in 1..2 |-> Basename(pair[1].a.pats[i])]
                 = [i \in 1..2 |-> Basename(pair[1].b.pats[i])]
            /\ pair[1].a.rates # pair[1].b.rates) => pair[1].pa # pair[1].pb

\* C8's case: the two requests differ in nothing but their rates.
C8_Witness ==
    /\ pair # None /\ pair[1].done
    /\ pair[1].a.rates # pair[1].b.rates
    /\ [pair[1].a EXCEPT !.rates = pair[1].b.rates] = pair[1].b
=============================================================================
